---- MODULE Spec2Model ----
(***************************************************************************)
(* A model of script.py, the static-site build of pbeart.github.io.        *)
(*                                                                         *)
(* Strings are sequences of one-character strings, paths are sequences of  *)
(* names (pathlib's parts).  The file system is the part of it the build   *)
(* touches: the output tree (directories and files), the posts tree and    *)
(* the site tree as glob sees them.                                        *)
(***************************************************************************)
EXTENDS Integers, Sequences, FiniteSets, TLC

\* ------------------------------------------------------------------------
\* Bounds of the model
\* ------------------------------------------------------------------------

\* at most this many files in the posts directory
MaxPosts == 3
\* at most this many files in the site directory
MaxAssets == 3
\* at most this many values per front-matter key
MaxValues == 2
\* the years the date filter is applied to
MinYear == 2023
MaxYear == 2024

\* ------------------------------------------------------------------------
\* Strings (str) and paths (pathlib.Path)
\* ------------------------------------------------------------------------

DOT == "."
SEP == "/"

S_build == <<"b", "u", "i", "l", "d">>
S_posts == <<"p", "o", "s", "t", "s">>
S_site == <<"s", "i", "t", "e">>
MD_SUFFIX == <<".", "m", "d">>
HTML_SUFFIX == <<".", "h", "t", "m", "l">>
JINJA_SUFFIX == <<".", "j", "i", "n", "j", "a", ".", "h", "t", "m", "l">>
NO_SUFFIX == <<>>

\* str.endswith
EndsWith(s, suf) ==
    /\ Len(s) >= Len(suf)
    /\ SubSeq(s, Len(s) - Len(suf) + 1, Len(s)) = suf

\* str.startswith
StartsWith(s, pre) ==
    /\ Len(s) >= Len(pre)
    /\ SubSeq(s, 1, Len(pre)) = pre

\* str.find(c) + 1, or 0 when c does not occur
Find(s, c) ==
    IF \E i \in 1..Len(s) : s[i] = c
    THEN CHOOSE i \in 1..Len(s) : s[i] = c /\ \A j \in 1..(i - 1) : s[j] # c
    ELSE 0

\* str.rfind(c) + 1, or 0 when c does not occur
RFind(s, c) ==
    IF \E i \in 1..Len(s) : s[i] = c
    THEN CHOOSE i \in 1..Len(s) : s[i] = c /\ \A j \in (i + 1)..Len(s) : s[j] # c
    ELSE 0

\* str.split(c)[0]
SplitFirst(s, c) ==
    IF Find(s, c) = 0 THEN s ELSE SubSeq(s, 1, Find(s, c) - 1)

\* str(path): the parts joined by the separator
RECURSIVE PathStr(_)
PathStr(p) ==
    IF Len(p) = 0 THEN <<>>
    ELSE IF Len(p) = 1 THEN p[1]
    ELSE p[1] \o <<SEP>> \o PathStr(Tail(p))

\* Path(str): the parts between separators, empty parts dropped
RECURSIVE ParsePath(_)
ParsePath(s) ==
    IF Len(s) = 0 THEN <<>>
    ELSE IF Find(s, SEP) = 0 THEN <<s>>
    ELSE LET head == SubSeq(s, 1, Find(s, SEP) - 1)
             rest == SubSeq(s, Find(s, SEP) + 1, Len(s))
         IN  IF Len(head) = 0 THEN ParsePath(rest)
             ELSE <<head>> \o ParsePath(rest)

\* Path.parent
Parent(p) == SubSeq(p, 1, Len(p) - 1)

\* Path.name
Name(p) == p[Len(p)]

\* Path(*Path(x).parts[1:])
DropFirstPart(p) == Tail(p)

\* PathSuffix with a fault: the suffix starts at the first dot of the name
PathSuffix_FirstDot(name) ==
    LET i == Find(name, DOT)
    IN  IF 1 < i /\ i < Len(name) THEN SubSeq(name, i, Len(name)) ELSE <<>>

\* Path.suffix of a name: from the last dot, unless the dot is the first or
\* the last character of the name
PathSuffix(name) ==
    LET i == RFind(name, DOT)
    IN  IF 1 < i /\ i < Len(name) THEN SubSeq(name, i, Len(name)) ELSE <<>>

\* Path.with_suffix(suffix), for a path with a non-empty name
WithSuffix(p, suffix) ==
    LET name == Name(p)
        old == PathSuffix(name)
        stem == SubSeq(name, 1, Len(name) - Len(old))
    IN  Parent(p) \o <<stem \o suffix>>

\* a / b
Joined(a, b) == a \o b

\* the paths that are p or lie above it
Ancestors(p) == {SubSeq(p, 1, k) : k \in 1..Len(p)}

\* ------------------------------------------------------------------------
\* The output tree: directories and files, and the calls that change it
\* ------------------------------------------------------------------------

NoTree == [dirs |-> {}, files |-> {}]

IsDir(fs, p) == p = <<>> \/ p \in fs.dirs

IsFile(fs, p) == \E f \in fs.files : f.path = p

Exists(fs, p) == IsDir(fs, p) \/ IsFile(fs, p)

\* RmTree with a fault: only the files directly under the top are removed
RmTree_TopOnly(fs, top) ==
    [dirs |-> fs.dirs,
     files |-> {f \in fs.files : Parent(f.path) # top}]

\* shutil.rmtree(top): the directory and everything under it
RmTree(fs, top) ==
    [dirs |-> {d \in fs.dirs : ~StartsWith(d, top)},
     files |-> {f \in fs.files : ~StartsWith(f.path, top)}]

\* Path.mkdir(parents=True, exist_ok=True)
Mkdir(fs, p) ==
    IF IsFile(fs, p)
    THEN [err |-> "FileExistsError", fs |-> fs]
    ELSE IF \E a \in Ancestors(p) : IsFile(fs, a)
    THEN [err |-> "NotADirectoryError", fs |-> fs]
    ELSE [err |-> "none", fs |-> [fs EXCEPT !.dirs = @ \cup Ancestors(p)]]

\* open(p, "wb") and the write of content
OpenWrite(fs, p, content) ==
    IF IsDir(fs, p)
    THEN [err |-> "IsADirectoryError", fs |-> fs]
    ELSE IF \E a \in Ancestors(Parent(p)) : IsFile(fs, a)
    THEN [err |-> "NotADirectoryError", fs |-> fs]
    ELSE IF ~IsDir(fs, Parent(p))
    THEN [err |-> "FileNotFoundError", fs |-> fs]
    ELSE [err |-> "none",
          fs |-> [fs EXCEPT !.files = {f \in @ : f.path # p}
                                        \cup {[path |-> p, content |-> content]}]]

\* shutil.copy(src, dst): into dst when dst is a directory, and a source
\* that is a directory cannot be opened
ShutilCopy(fs, src, srcIsDir, dst) ==
    LET target == IF IsDir(fs, dst) THEN dst \o <<Name(src)>> ELSE dst
    IN  IF srcIsDir
        THEN [err |-> "IsADirectoryError", fs |-> fs]
        ELSE OpenWrite(fs, target, [kind |-> "copy", src |-> src])

\* ------------------------------------------------------------------------
\* The source trees and glob
\* ------------------------------------------------------------------------

P_a == <<S_posts, <<"a", ".", "m", "d">>>>
P_ab == <<S_posts, <<"a", ".", "b", ".", "m", "d">>>>
P_dc == <<S_posts, <<"d", ".", "e">>, <<"c", ".", "m", "d">>>>
P_sub == <<S_posts, <<"a">>, <<"b", ".", "m", "d">>>>
P_hidden == <<S_posts, <<".", "h", ".", "m", "d">>>>
P_txt == <<S_posts, <<"n", ".", "t", "x", "t">>>>

PostUniverse == {P_a, P_ab, P_dc, P_sub, P_hidden, P_txt}

PostTrees == {t \in SUBSET PostUniverse : Cardinality(t) <= MaxPosts}

A_index == <<S_site, <<"i">> \o JINJA_SUFFIX>>
A_robots == <<S_site, <<"r", ".", "t", "x", "t">>>>
A_vpage == <<S_site, <<"v", ".", "2">>, <<"p">> \o JINJA_SUFFIX>>
A_css == <<S_site, <<"c">>, <<"s", ".", "c", "s", "s">>>>
A_mpage == <<S_site, <<"m", ".", "p">> \o JINJA_SUFFIX>>
A_hidden == <<S_site, <<".", "h">>>>

SiteUniverse == {A_index, A_robots, A_vpage, A_css, A_mpage, A_hidden}

SiteTrees == {t \in SUBSET SiteUniverse : Cardinality(t) <= MaxAssets}

\* glob skips the names that start with a dot, at every level under the top
IsHidden(p) == \E k \in 2..Len(p) : StartsWith(p[k], <<DOT>>)

\* glob.iglob("posts/**/*.md", recursive=True), as a set
GlobPosts(tree) == {p \in tree : ~IsHidden(p) /\ EndsWith(Name(p), MD_SUFFIX)}

\* glob.iglob("site/**/*", recursive=True), as a set: the files and the
\* directories, each with whether it is a directory
GlobSite(tree) ==
    {[path |-> p, isdir |-> FALSE] : p \in {q \in tree : ~IsHidden(q)}}
    \cup {[path |-> d, isdir |-> TRUE] :
            d \in {a \in UNION {Ancestors(Parent(q)) : q \in tree} :
                     Len(a) >= 2 /\ ~IsHidden(a)}}

\* the paths iglob may yield next: a directory's entries come together, and
\* a directory's own entries before those of the directories under it
NextYield(pending, last) ==
    LET same == {p \in pending : Len(last) > 0 /\ Parent(p) = Parent(last[1])}
        top == {p \in pending : \A q \in pending : Len(p) <= Len(q)}
    IN  IF same # {} THEN same ELSE top

\* ------------------------------------------------------------------------
\* Markdown: the inline patterns the extensions register, and conversion
\* ------------------------------------------------------------------------

\* A document is a sequence of inline spans: plain text, the link shorthand
\* [text](target), and a formula between runs of `dollars` dollar signs.
Text == [kind |-> "text", dollars |-> 0, tag |-> ""]
Link == [kind |-> "link", dollars |-> 0, tag |-> ""]
Math(n) == [kind |-> "math", dollars |-> n, tag |-> ""]

\* what each post file holds
DocOf(path) ==
    IF path = P_a THEN <<Text, Math(2), Link>>
    ELSE IF path = P_ab THEN <<Math(3), Math(4)>>
    ELSE IF path = P_dc THEN <<Link, Math(3), Math(2)>>
    ELSE <<Text>>

CUSTOMLINK_PRIORITY == 300
MATHBLOCK_PRIORITY == 200
MATHINLINE_PRIORITY == 175

CustomLinkPattern ==
    [name |-> "customlink", priority |-> CUSTOMLINK_PRIORITY, dollars |-> 0, block |-> FALSE]
MathInlinePattern ==
    [name |-> "mathinline", priority |-> MATHINLINE_PRIORITY, dollars |-> 2, block |-> FALSE]
MathBlockPattern ==
    [name |-> "mathblock", priority |-> MATHBLOCK_PRIORITY, dollars |-> 3, block |-> TRUE]

\* Extensions with a fault: the math extension is always appended
Extensions_AlwaysMath(noMath) == {"meta", "customlink", "math"}

\* extensions = ['meta', CustomLinkExtension()], and MathExtension() unless
\* --no-math was given
Extensions(noMath) ==
    IF noMath THEN {"meta", "customlink"} ELSE {"meta", "customlink", "math"}

\* the patterns the extensions' extendMarkdown calls register
Registered(extensions) ==
    (IF "customlink" \in extensions THEN {CustomLinkPattern} ELSE {})
    \cup (IF "math" \in extensions THEN {MathInlinePattern, MathBlockPattern} ELSE {})

\* RunsBefore with a fault: the lower priority runs first
RunsBefore_Ascending(p, q) == p.priority < q.priority

\* md.inlinePatterns.register(item, name, priority): of two patterns the one
\* with the higher priority is run first
RunsBefore(p, q) == p.priority > q.priority

\* the registered patterns in the order the conversion runs them
RECURSIVE InlineChain(_)
InlineChain(pats) ==
    IF pats = {} THEN <<>>
    ELSE LET first == CHOOSE p \in pats : \A q \in pats \ {p} : RunsBefore(p, q)
         IN  <<first>> \o InlineChain(pats \ {first})

\* whether the pattern's regular expression matches the span
Matches(pat, tok) ==
    IF pat.name = "customlink" THEN tok.kind = "link"
    ELSE tok.kind = "math" /\ tok.dollars >= pat.dollars

\* handleMatch of the pattern on a span it matches: the element that replaces
\* the span and the command lines spawned.  MathPreprocessor rejects a match
\* whose inner text starts with a dollar sign, before it spawns anything.
HandleMatch(pat, tok) ==
    IF pat.name = "customlink"
    THEN [el |-> [kind |-> "slink", dollars |-> 0, tag |-> "span"], popen |-> <<>>]
    ELSE IF tok.dollars > pat.dollars
    THEN [el |-> tok, popen |-> <<>>]
    ELSE IF pat.block
    THEN [el |-> [kind |-> "katex", dollars |-> pat.dollars, tag |-> "p"],
          popen |-> <<"npx katex -d">>]
    ELSE [el |-> [kind |-> "katex", dollars |-> pat.dollars, tag |-> "span"],
          popen |-> <<"npx katex">>]

\* one pattern run over the spans from the i-th on
RECURSIVE ApplyPattern(_, _, _)
ApplyPattern(pat, toks, i) ==
    IF i > Len(toks) THEN [toks |-> toks, popen |-> <<>>]
    ELSE IF Matches(pat, toks[i])
    THEN LET h == HandleMatch(pat, toks[i])
             rest == ApplyPattern(pat, [toks EXCEPT ![i] = h.el], i + 1)
         IN  [toks |-> rest.toks, popen |-> h.popen \o rest.popen]
    ELSE ApplyPattern(pat, toks, i + 1)

\* md.convert: every pattern of the chain in turn, each over the whole text
RECURSIVE Convert(_, _)
Convert(toks, chain) ==
    IF chain = <<>> THEN [toks |-> toks, popen |-> <<>>]
    ELSE LET one == ApplyPattern(chain[1], toks, 1)
             rest == Convert(one.toks, Tail(chain))
         IN  [toks |-> rest.toks, popen |-> one.popen \o rest.popen]

\* ------------------------------------------------------------------------
\* Front matter (md.Meta) and its validation
\* ------------------------------------------------------------------------

RequiredKeys == <<"title", "published", "extract">>

KeySet == {RequiredKeys[i] : i \in 1..Len(RequiredKeys)}

ValueLists == {[i \in 1..n |-> "v"] : n \in 1..MaxValues}

\* md.Meta: the keys present, each with its list of values
Metas == UNION {[ks -> ValueLists] : ks \in SUBSET KeySet}

\* Unpack with a fault: of several values the first is taken
Unpack_FirstValue(meta, key) ==
    IF key \notin DOMAIN meta THEN "KeyError" ELSE "none"

\* [x] = metadata[key]
Unpack(meta, key) ==
    IF key \notin DOMAIN meta THEN "KeyError"
    ELSE IF Len(meta[key]) # 1 THEN "ValueError"
    ELSE "none"

\* the three unpackings in the order of the code: the first that fails
RECURSIVE Validate(_, _)
Validate(meta, i) ==
    IF i > Len(RequiredKeys) THEN "none"
    ELSE IF Unpack(meta, RequiredKeys[i]) # "none"
    THEN Unpack(meta, RequiredKeys[i])
    ELSE Validate(meta, i + 1)

\* ------------------------------------------------------------------------
\* The build
\* ------------------------------------------------------------------------

VARIABLES
    pc,                 \* where the script is: start, posts, assets, done, aborted
    IS_DEPLOYMENT,      \* "CI" in os.environ
    no_math,            \* args.no_math
    prior,              \* the output tree the invocation found (kept for reference)
    build,              \* the output tree
    pendingPosts,       \* the post files iglob has yet to yield
    visited,            \* the post files iglob has yielded, in order
    markdown_path,      \* the loop variable of the posts loop, <<>> while unbound
    posts,              \* the list of Post
    post,               \* the variable post, <<>> while unbound
    inlinePatterns,     \* the names in md.inlinePatterns of the last Markdown, in run order
    converted_content,  \* the last result of md.convert
    metadata,           \* the variable metadata (md.Meta), <<>> while unbound
    spawned,            \* the command lines given to subprocess.Popen so far
    context,            \* the variable context, <<>> while unbound
    pendingAssets,      \* the site entries iglob has yet to yield
    assetsVisited,      \* the site entries iglob has yielded, in order
    filename,           \* the loop variable of the assets loop, <<>> while unbound
    rendered,           \* for each site template rendered: the posts its context held
    error,              \* the exception that ended the script, if any
    value,              \* the argument of the date filter
    formatted           \* the result of the date filter, <<>> before it is applied

vars ==
    <<pc, IS_DEPLOYMENT, no_math, prior, build, pendingPosts, visited, markdown_path,
      posts, post, inlinePatterns, converted_content, metadata, spawned, context,
      pendingAssets, assetsVisited, filename, rendered, error, value, formatted>>

buildVars ==
    <<pc, IS_DEPLOYMENT, no_math, prior, build, pendingPosts, visited, markdown_path,
      posts, post, inlinePatterns, converted_content, metadata, spawned, context,
      pendingAssets, assetsVisited, filename, rendered, error>>

NoError == [type |-> "none", cause |-> "none", post |-> <<>>]

OldFile(p) == [path |-> p, content |-> [kind |-> "prior", src |-> p]]

\* the output trees an earlier run may have left
PriorBuilds ==
    {NoTree,
     [dirs |-> {<<S_build>>},
      files |-> {OldFile(<<S_build, <<"o">> \o HTML_SUFFIX>>)}],
     [dirs |-> {<<S_build>>, <<S_build, S_posts>>},
      files |-> {OldFile(<<S_build, S_posts, <<"a">> \o HTML_SUFFIX>>),
                 OldFile(<<S_build, <<"r", ".", "t", "x", "t">>>>)}]}

FirstDate == [day |-> 1, month |-> 1, year |-> MinYear]

Init ==
    /\ pc = "start"
    /\ IS_DEPLOYMENT \in BOOLEAN
    /\ no_math \in BOOLEAN
    /\ build \in PriorBuilds
    /\ prior = build
    /\ pendingPosts = {}
    /\ visited = <<>>
    /\ markdown_path = <<>>
    /\ posts = <<>>
    /\ post = <<>>
    /\ inlinePatterns = <<>>
    /\ converted_content = <<>>
    /\ metadata = <<>>
    /\ spawned = <<>>
    /\ context = <<>>
    /\ pendingAssets = {}
    /\ assetsVisited = <<>>
    /\ filename = <<>>
    /\ rendered = {}
    /\ error = NoError
    /\ value = FirstDate
    /\ formatted = <<>>

\* if Path("build").exists(): shutil.rmtree("build"); posts = []; and the
\* posts loop's iglob reads the posts directory
Reset ==
    /\ pc = "start"
    /\ build' = IF Exists(build, <<S_build>>) THEN RmTree(build, <<S_build>>) ELSE build
    /\ posts' = <<>>
    /\ \E tree \in PostTrees : pendingPosts' = GlobPosts(tree)
    /\ pc' = "posts"
    /\ UNCHANGED <<IS_DEPLOYMENT, no_math, prior, visited, markdown_path, post,
                   inlinePatterns, converted_content, metadata, spawned, context,
                   pendingAssets, assetsVisited, filename, rendered, error, value,
                   formatted>>

\* rel_path_md and post_html_path
PostHtmlPath(path, deployment) ==
    IF deployment
    THEN WithSuffix(DropFirstPart(path), NO_SUFFIX)
    ELSE WithSuffix(DropFirstPart(path), HTML_SUFFIX)

\* "/posts/" + str(post_html_path)
PostUrl(htmlPath) == <<SEP>> \o S_posts \o <<SEP>> \o PathStr(htmlPath)

\* "build" / ("posts" / post_html_path)
PostOutPath(htmlPath) == Joined(<<S_build>>, Joined(<<S_posts>>, htmlPath))

\* process_template(converted_content): the slink calls the link shorthand
\* left in the text are expanded to anchors
ProcessTemplate(toks) ==
    [i \in DOMAIN toks |->
        IF toks[i].kind = "slink"
        THEN [kind |-> "a", dollars |-> 0, tag |-> "link-arrow-s"]
        ELSE toks[i]]

\* Post(...)
NewPost(meta, htmlPath, html) ==
    [title |-> meta["title"][1],
     url |-> PostUrl(htmlPath),
     published |-> meta["published"][1],
     extract |-> meta["extract"][1],
     html |-> html,
     math_enabled |-> TRUE]

\* except (KeyError, ValueError) as e: raise Exception(f"... {post}") from e.
\* The message is formatted from the variable post; while it is unbound the
\* formatting itself raises NameError.
Handler(cause) ==
    IF post = <<>>
    THEN [type |-> "NameError", cause |-> cause, post |-> <<>>]
    ELSE [type |-> "Exception", cause |-> cause, post |-> post]

\* an exception the handler does not catch
Uncaught(type) == [type |-> type, cause |-> "none", post |-> <<>>]

\* PostsLoopDone with a fault: the loop stops one file early
PostsLoopDone_Early(pending) == Cardinality(pending) <= 1

\* the posts loop ends when iglob has no more files
PostsLoopDone(pending) == pending = {}

\* One pass of the posts loop over path.  meta is the file's front
\* matter, dateOk whether dateutil parses the published value, templateOk
\* whether the converted content is a valid template.
PostPass(path, meta, dateOk, templateOk) ==
    LET chain == InlineChain(Registered(Extensions(no_math)))
        conv == Convert(DocOf(path), chain)
        htmlPath == PostHtmlPath(path, IS_DEPLOYMENT)
        outPath == PostOutPath(htmlPath)
        made == Mkdir(build, Parent(outPath))
        written == OpenWrite(made.fs, outPath, [kind |-> "post", src |-> path])
        same == [error |-> NoError, post |-> post, posts |-> posts, build |-> build,
                 chain |-> chain, conv |-> conv]
    IN  IF ~templateOk
        THEN [same EXCEPT !.error = Uncaught("TemplateSyntaxError")]
        ELSE IF Validate(meta, 1) # "none"
        THEN [same EXCEPT !.error = Handler(Validate(meta, 1))]
        ELSE IF ~dateOk
        THEN [same EXCEPT !.error = Handler("ValueError")]
        ELSE LET new == NewPost(meta, htmlPath, ProcessTemplate(conv.toks))
                 appended == [same EXCEPT !.post = <<new>>, !.posts = Append(posts, new)]
             IN  IF made.err # "none"
                 THEN [appended EXCEPT !.error = Uncaught(made.err)]
                 ELSE IF written.err # "none"
                 THEN [appended EXCEPT !.error = Uncaught(written.err), !.build = made.fs]
                 ELSE [appended EXCEPT !.build = written.fs]

\* the body of the posts loop, for the file iglob yields next
ProcessPost ==
    /\ pc = "posts"
    /\ ~PostsLoopDone(pendingPosts)
    /\ \E path \in NextYield(pendingPosts, markdown_path), meta \in Metas,
          dateOk \in BOOLEAN, templateOk \in BOOLEAN :
          LET r == PostPass(path, meta, dateOk, templateOk)
          IN  /\ markdown_path' = <<path>>
              /\ pendingPosts' = pendingPosts \ {path}
              /\ visited' = Append(visited, path)
              /\ inlinePatterns' = [i \in DOMAIN r.chain |-> r.chain[i].name]
              /\ converted_content' = r.conv.toks
              /\ metadata' = IF templateOk THEN <<meta>> ELSE metadata
              /\ spawned' = spawned \o r.conv.popen
              /\ post' = r.post
              /\ posts' = r.posts
              /\ build' = r.build
              /\ error' = r.error
              /\ pc' = IF r.error = NoError THEN "posts" ELSE "aborted"
    /\ UNCHANGED <<IS_DEPLOYMENT, no_math, prior, context, pendingAssets, assetsVisited,
                   filename, rendered, value, formatted>>

\* context = {"posts": posts}, and the assets loop's iglob reads the site
\* directory
BuildContext ==
    /\ pc = "posts"
    /\ PostsLoopDone(pendingPosts)
    /\ context' = <<[posts |-> posts]>>
    /\ \E tree \in SiteTrees : pendingAssets' = GlobSite(tree)
    /\ pc' = "assets"
    /\ UNCHANGED <<IS_DEPLOYMENT, no_math, prior, build, pendingPosts, visited,
                   markdown_path, posts, post, inlinePatterns, converted_content, metadata,
                   spawned, assetsVisited, filename, rendered, error, value, formatted>>

\* filename.endswith(".jinja.html")
IsTemplate(path) == EndsWith(PathStr(path), JINJA_SUFFIX)

\* str(rel_path).split(".")[0], as a path again
TemplateStem(path) == ParsePath(SplitFirst(PathStr(DropFirstPart(path)), DOT))

\* "build" / Path(str(rel_path).split(".")[0]).with_suffix(".html")
TemplateOutPath(path) == Joined(<<S_build>>, WithSuffix(TemplateStem(path), HTML_SUFFIX))

\* "build" / rel_path
CopyOutPath(path) == Joined(<<S_build>>, DropFirstPart(path))

\* the template branch of the assets loop for entry e.  The output file is
\* opened, and so created, before the template is rendered.
TemplatePass(e, templateOk) ==
    LET made == Mkdir(build, Parent(TemplateOutPath(e.path)))
        opened == OpenWrite(made.fs, TemplateOutPath(e.path),
                            [kind |-> "empty", src |-> e.path])
        written == OpenWrite(made.fs, TemplateOutPath(e.path),
                             [kind |-> "template", src |-> e.path])
        same == [error |-> NoError, build |-> build, rendered |-> rendered]
    IN  IF e.isdir
        THEN [same EXCEPT !.error = Uncaught("IsADirectoryError")]
        ELSE IF TemplateStem(e.path) = <<>>
        THEN [same EXCEPT !.error = Uncaught("ValueError")]
        ELSE IF made.err # "none"
        THEN [same EXCEPT !.error = Uncaught(made.err)]
        ELSE IF opened.err # "none"
        THEN [same EXCEPT !.error = Uncaught(opened.err), !.build = made.fs]
        ELSE IF ~templateOk
        THEN [same EXCEPT !.error = Uncaught("TemplateSyntaxError"), !.build = opened.fs]
        ELSE [same EXCEPT !.build = written.fs,
                          !.rendered = @ \cup {[filename |-> e.path,
                                                posts |-> context[1].posts,
                                                out |-> TemplateOutPath(e.path)]}]

\* the entries of the site directory iglob may yield next
NextAssets ==
    {e \in pendingAssets :
        e.path \in NextYield({x.path : x \in pendingAssets}, filename)}

\* the body of the assets loop for an entry whose name ends in .jinja.html
RenderTemplate ==
    /\ pc = "assets"
    /\ \E e \in NextAssets, templateOk \in BOOLEAN :
          /\ IsTemplate(e.path)
          /\ LET r == TemplatePass(e, templateOk)
             IN  /\ filename' = <<e.path>>
                 /\ pendingAssets' = pendingAssets \ {e}
                 /\ assetsVisited' = Append(assetsVisited, e)
                 /\ build' = r.build
                 /\ rendered' = r.rendered
                 /\ error' = r.error
                 /\ pc' = IF r.error = NoError THEN "assets" ELSE "aborted"
    /\ UNCHANGED <<IS_DEPLOYMENT, no_math, prior, pendingPosts, visited, markdown_path,
                   posts, post, inlinePatterns, converted_content, metadata, spawned,
                   context, value, formatted>>

\* the body of the assets loop for any other entry
CopyAsset ==
    /\ pc = "assets"
    /\ \E e \in NextAssets :
          /\ ~IsTemplate(e.path)
          /\ LET r == ShutilCopy(build, e.path, e.isdir, CopyOutPath(e.path))
             IN  /\ filename' = <<e.path>>
                 /\ pendingAssets' = pendingAssets \ {e}
                 /\ assetsVisited' = Append(assetsVisited, e)
                 /\ build' = r.fs
                 /\ error' = IF r.err = "none" THEN NoError ELSE Uncaught(r.err)
                 /\ pc' = IF r.err = "none" THEN "assets" ELSE "aborted"
    /\ UNCHANGED <<IS_DEPLOYMENT, no_math, prior, pendingPosts, visited, markdown_path,
                   posts, post, inlinePatterns, converted_content, metadata, spawned,
                   context, rendered, value, formatted>>

\* the assets loop ends and the script with it
Finish ==
    /\ pc = "assets"
    /\ pendingAssets = {}
    /\ pc' = "done"
    /\ UNCHANGED <<IS_DEPLOYMENT, no_math, prior, build, pendingPosts, visited,
                   markdown_path, posts, post, inlinePatterns, converted_content, metadata,
                   spawned, context, pendingAssets, assetsVisited, filename, rendered,
                   error, value, formatted>>

Next ==
    \/ Reset
    \/ ProcessPost
    \/ BuildContext
    \/ RenderTemplate
    \/ CopyAsset
    \/ Finish

Spec == Init /\ [][Next]_vars

\* ------------------------------------------------------------------------
\* The date filter
\* ------------------------------------------------------------------------

MonthNames ==
    <<"January", "February", "March", "April", "May", "June", "July", "August",
      "September", "October", "November", "December">>

IsLeap(y) == (y % 4 = 0 /\ y % 100 # 0) \/ y % 400 = 0

DaysInMonth(m, y) ==
    IF m = 2 THEN (IF IsLeap(y) THEN 29 ELSE 28)
    ELSE IF m \in {4, 6, 9, 11} THEN 30
    ELSE 31

\* the datetime values of the years of the model
Dates ==
    {d \in [day : 1..31, month : 1..12, year : MinYear..MaxYear] :
        d.day <= DaysInMonth(d.month, d.year)}

DigitChars == <<"0", "1", "2", "3", "4", "5", "6", "7", "8", "9">>

\* the decimal digits of n
RECURSIVE Digits(_)
Digits(n) ==
    IF n < 10 THEN <<DigitChars[n + 1]>>
    ELSE Digits(n \div 10) \o <<DigitChars[(n % 10) + 1]>>

\* strftime %d: the day of the month, zero-padded to two digits
StrfDay(d) == IF d < 10 THEN <<"0">> \o Digits(d) ELSE Digits(d)

\* OrdinalSuffix with a fault: by the last digit alone
OrdinalSuffix_LastDigit(day) ==
    IF day % 10 = 1 THEN "st"
    ELSE IF day % 10 = 2 THEN "nd"
    ELSE IF day % 10 = 3 THEN "rd"
    ELSE "th"

\* the if/elif chain of format_datetime
OrdinalSuffix(day) ==
    IF day \in {1, 21, 31} THEN "st"
    ELSE IF day \in {2, 22} THEN "nd"
    ELSE IF day \in {3, 23} THEN "rd"
    ELSE "th"

\* value.strftime(f"%d<sup>{ordinal_suffix}</sup> of %B %Y")
format_datetime(v) ==
    StrfDay(v.day) \o <<"<sup>", OrdinalSuffix(v.day), "</sup>", " of ",
                        MonthNames[v.month], " ">> \o Digits(v.year)

InitFilter ==
    /\ pc = "start"
    /\ IS_DEPLOYMENT = FALSE
    /\ no_math = FALSE
    /\ build = NoTree
    /\ prior = NoTree
    /\ pendingPosts = {}
    /\ visited = <<>>
    /\ markdown_path = <<>>
    /\ posts = <<>>
    /\ post = <<>>
    /\ inlinePatterns = <<>>
    /\ converted_content = <<>>
    /\ metadata = <<>>
    /\ spawned = <<>>
    /\ context = <<>>
    /\ pendingAssets = {}
    /\ assetsVisited = <<>>
    /\ filename = <<>>
    /\ rendered = {}
    /\ error = NoError
    /\ value \in Dates
    /\ formatted = <<>>

\* {{ value | format_datetime }}
ApplyFilter ==
    /\ formatted = <<>>
    /\ formatted' = format_datetime(value)
    /\ UNCHANGED <<value>>
    /\ UNCHANGED buildVars

NextFilter == ApplyFilter

SpecFilter == InitFilter /\ [][NextFilter]_vars

\* ------------------------------------------------------------------------
\* Properties
\* ------------------------------------------------------------------------

\* the url the Post of a post file carries
UrlOf(path) == PostUrl(PostHtmlPath(path, IS_DEPLOYMENT))

\* the position of a pattern in the chain of the last Markdown, 0 if absent
PositionOf(name) ==
    IF \E i \in DOMAIN inlinePatterns : inlinePatterns[i] = name
    THEN CHOOSE i \in DOMAIN inlinePatterns : inlinePatterns[i] = name
    ELSE 0

\* whether the posts loop was left by an exception in its last pass
PostFailed == pc = "aborted" /\ context = <<>> /\ markdown_path # <<>>

\* C1 (state part): when a site template has been rendered, or any site
\* entry handled, no post file is pending, and the posts the template saw
\* are one Post per post file found, in the order of the traversal.
C1_PostsCompleteWhenRead ==
    /\ \A r \in rendered :
          /\ pendingPosts = {}
          /\ Len(r.posts) = Len(visited)
          /\ \A i \in 1..Len(visited) : r.posts[i].url = UrlOf(visited[i])
          /\ \A p \in {visited[i] : i \in 1..Len(visited)} :
                Cardinality({i \in 1..Len(r.posts) : r.posts[i].url = UrlOf(p)}) = 1
    /\ (assetsVisited # <<>>
          \/ \E f \in build.files : f.content.kind \in {"template", "copy", "empty"})
       => pendingPosts = {} /\ Len(posts) = Len(visited) /\ context = <<[posts |-> posts]>>

\* C1: site templates are rendered only once every post file has been
\* processed into the Post sequence, which holds one Post per post file in
\* traversal order; no asset is rendered or copied while a post is pending;
\* and the Post sequence is only ever appended to.
C1_AssetsAfterAllPosts ==
    /\ []C1_PostsCompleteWhenRead
    /\ [][Len(posts') >= Len(posts) /\ SubSeq(posts', 1, Len(posts)) = posts]_vars

\* a template was rendered after two posts, one of them in a subdirectory
C1_Witness ==
    /\ rendered # {}
    /\ Len(visited) = 2
    /\ visited[2] = P_dc

\* C2: nothing is written before the reset, and from the reset on the output
\* tree holds only files the current invocation wrote, none left by a prior
\* run, whether the build goes on, completes or aborts.
C2_FreshOutputTree ==
    /\ pc = "start" => build = prior
    /\ pc # "start" =>
          \A f \in build.files :
             /\ f.content.kind \in {"post", "template", "copy", "empty"}
             /\ f \notin prior.files

\* a prior run left files, and the aborted build wrote one at the same path
C2_Witness ==
    /\ pc = "aborted"
    /\ \E f \in build.files : \E g \in prior.files : f.path = g.path

\* front matter that lacks a required key or gives one more than one value
InvalidFrontMatter(meta) ==
    \E k \in {"title", "published", "extract"} :
       k \notin DOMAIN meta \/ Len(meta[k]) >= 2

\* C3: a post whose front matter lacks a required key, or gives two or more
\* values for one, fails and aborts the build at once: no Post is appended
\* for it, no output file is written for it, and no later post and no site
\* asset is processed.
C3_InvalidFrontMatterAborts ==
    (metadata # <<>> /\ InvalidFrontMatter(metadata[1])) =>
       /\ pc = "aborted"
       /\ error.cause \in {"KeyError", "ValueError"}
       /\ markdown_path = <<visited[Len(visited)]>>
       /\ Len(posts) = Len(visited) - 1
       /\ \A i \in 1..Len(posts) : posts[i].url = UrlOf(visited[i])
       /\ \A f \in build.files :
             /\ f.content.kind = "post"
             /\ f.content.src \in {visited[i] : i \in 1..(Len(visited) - 1)}
       /\ ~IsFile(build, PostOutPath(PostHtmlPath(markdown_path[1], IS_DEPLOYMENT)))
       /\ context = <<>>
       /\ assetsVisited = <<>>
       /\ rendered = {}

\* the second post gave two values for a key, after the first was written
C3_Witness ==
    /\ pc = "aborted"
    /\ Len(visited) = 2
    /\ metadata # <<>>
    /\ "extract" \in DOMAIN metadata[1]
    /\ Len(metadata[1]["extract"]) = 2
    /\ error.cause = "ValueError"
    /\ build.files # {}

\* C4: when a post fails with a metadata error, the error that ends the
\* build carries the identity of the post that was being processed.
C4_ErrorNamesFailingPost ==
    (PostFailed /\ error.cause \in {"KeyError", "ValueError"}) =>
       /\ error.post # <<>>
       /\ error.post[1].url = UrlOf(markdown_path[1])

\* the name of a post file without its .md
StripMd(name) == SubSeq(name, 1, Len(name) - Len(MD_SUFFIX))

\* where the claim puts the page of a post file
ExpectedPostPath(path) ==
    <<S_build, S_posts>> \o Parent(DropFirstPart(path))
       \o <<StripMd(Name(path)) \o (IF IS_DEPLOYMENT THEN <<>> ELSE HTML_SUFFIX)>>

\* C5: during the posts phase, every post file processed has its page under
\* build/posts at its path relative to posts, .md replaced by .html without
\* the deployment variable and dropped with it, and the directories above
\* the page exist.
C5_PostOutputPath ==
    context = <<>> =>
       \A i \in 1..Len(visited) :
          (i < Len(visited) \/ ~PostFailed) =>
             /\ [path |-> ExpectedPostPath(visited[i]),
                 content |-> [kind |-> "post", src |-> visited[i]]] \in build.files
             /\ Ancestors(Parent(ExpectedPostPath(visited[i]))) \subseteq build.dirs

\* under deployment, a post in a dotted directory and one with a dotted stem
C5_Witness ==
    /\ IS_DEPLOYMENT
    /\ IsFile(build, <<S_build, S_posts, <<"d", ".", "e">>, <<"c">>>>)
    /\ IsFile(build, <<S_build, S_posts, <<"a", ".", "b">>>>)

\* where the claim puts the output of a site template
ExpectedTemplatePath(path) ==
    <<S_build>> \o Parent(DropFirstPart(path))
       \o <<SubSeq(Name(path), 1, Len(Name(path)) - Len(JINJA_SUFFIX)) \o HTML_SUFFIX>>

\* C6: every site template rendered is written to its relative path with
\* the suffix .jinja.html replaced by .html.
C6_TemplateOutputPath ==
    \A r \in rendered :
       /\ r.out = ExpectedTemplatePath(r.filename)
       /\ [path |-> ExpectedTemplatePath(r.filename),
           content |-> [kind |-> "template", src |-> r.filename]] \in build.files

\* C7: every site entry that is not a template is copied to the output path
\* that mirrors its relative path, and the build is not ended by it.
C7_CopyMirrorsEveryEntry ==
    \A i \in 1..Len(assetsVisited) :
       LET e == assetsVisited[i]
       IN  ~IsTemplate(e.path) =>
              /\ ~(pc = "aborted" /\ i = Len(assetsVisited))
              /\ IF e.isdir
                 THEN IsDir(build, CopyOutPath(e.path))
                 ELSE [path |-> CopyOutPath(e.path),
                       content |-> [kind |-> "copy", src |-> e.path]] \in build.files

\* C8: with --no-math no math pattern is in the chain, no process is ever
\* spawned, and every formula span of the post converted last is unchanged.
C8_NoMathNoSpawn ==
    no_math =>
       /\ spawned = <<>>
       /\ PositionOf("mathinline") = 0
       /\ PositionOf("mathblock") = 0
       /\ markdown_path # <<>> =>
             /\ Len(converted_content) = Len(DocOf(markdown_path[1]))
             /\ \A i \in 1..Len(converted_content) :
                   DocOf(markdown_path[1])[i].kind = "math"
                      => converted_content[i] = DocOf(markdown_path[1])[i]

\* a build with --no-math completed over a post with inline and block math
C8_Witness ==
    /\ no_math
    /\ pc = "done"
    /\ markdown_path = <<P_dc>>
    /\ Len(posts) = 2

\* C9: for every day of the month the filter gives the two-digit day, the
\* suffix st for 1, 21, 31, nd for 2, 22, rd for 3, 23 and th for every
\* other day, in superscript markup right after the day, and then the full
\* month name and the four-digit year.
C9_OrdinalSuffix ==
    formatted # <<>> =>
       /\ Len(formatted) = 12
       /\ formatted[1] = DigitChars[(value.day \div 10) + 1]
       /\ formatted[2] = DigitChars[(value.day % 10) + 1]
       /\ formatted[3] = "<sup>"
       /\ value.day \in {1, 21, 31} => formatted[4] = "st"
       /\ value.day \in {2, 22} => formatted[4] = "nd"
       /\ value.day \in {3, 23} => formatted[4] = "rd"
       /\ value.day \in (1..31) \ {1, 21, 31, 2, 22, 3, 23} => formatted[4] = "th"
       /\ formatted[5] = "</sup>"
       /\ formatted[7] = MonthNames[value.month]
       /\ \A k \in 9..12 : \E n \in 0..9 : formatted[k] = DigitChars[n + 1]
       /\ \E a, b, c, d \in 0..9 :
             /\ <<formatted[9], formatted[10], formatted[11], formatted[12]>>
                   = <<DigitChars[a + 1], DigitChars[b + 1], DigitChars[c + 1],
                       DigitChars[d + 1]>>
             /\ value.year = 1000 * a + 100 * b + 10 * c + d

\* the filter was applied to the eleventh of a month
C9_Witness ==
    /\ formatted # <<>>
    /\ value.day = 11

\* C10 as amended: in the chain of every post's conversion with math on, the
\* link shorthand is run first, then block math, then inline math.
C10_LinkThenBlockThenInline ==
    (markdown_path # <<>> /\ ~no_math) =>
       /\ PositionOf("customlink") > 0
       /\ PositionOf("customlink") < PositionOf("mathblock")
       /\ PositionOf("mathblock") < PositionOf("mathinline")

\* a post was converted with the math extension on
C10_Witness ==
    /\ markdown_path # <<>>
    /\ ~no_math
    /\ Len(inlinePatterns) = 3

\* C10 as stated: block math before inline math before the link shorthand
C10_MathBeforeLink ==
    (markdown_path # <<>> /\ ~no_math) =>
       /\ PositionOf("mathblock") > 0
       /\ PositionOf("mathblock") < PositionOf("mathinline")
       /\ PositionOf("mathinline") < PositionOf("customlink")

====
